---- MODULE Spec2Model ----
(***************************************************************************)
(* Model of app.py: the Streamlit page that fetches the catalog of gold    *)
(* price charts, selects one record by (tipe, time_interval), decodes its  *)
(* json_fluktuasi payload, maps its columns and shows the sorted table.    *)
(***************************************************************************)
EXTENDS Integers, Sequences, FiniteSets, TLC

VARIABLES
    upstream,   \* the catalog the endpoint serves (what fetch_all_grafik returns)
    tipe,       \* st.selectbox "Tipe" / the tipe argument of auto_map
    interval,   \* st.number_input "time_interval"
    outcome,    \* what the last script run ended with
    records,    \* records = fetch_all_grafik()
    record,     \* the selected record, <<>> while None
    combos,     \* the list written in the not-found branch
    js,         \* the argument of parse_json_fluktuasi
    priced,     \* <<>> while unassigned, <<v>> once the decoder returned v
    used,       \* the mapping auto_map reports
    manual,     \* the three manual selectboxes, <<>> when not shown
    sorter,     \* the indexer sort_values computed (positions of the input rows)
    out         \* the table handed to st.dataframe / to_csv

vars == <<upstream, tipe, interval, outcome, records, record, combos, js,
          priced, used, manual, sorter, out>>

-----------------------------------------------------------------------------
(* Bounds of the model. *)

\* longest catalog the endpoint serves
MaxCatalog == 2

\* longest list of price points in a payload
MaxPoints == 3

-----------------------------------------------------------------------------
(* Python values.  A value carries its type as its only field name, so     *)
(* isinstance is a test of the field name.  None, NaN, NaT and pd.NA are   *)
(* the empty tuple; a present value v is <<v>>.                            *)

Str(s) == [str |-> s]
Num(n) == [num |-> n]
List(xs) == [list |-> xs]
Dict(f) == [dict |-> f]

IsStr(x) == DOMAIN x = {"str"}
IsNum(x) == DOMAIN x = {"num"}
IsList(x) == DOMAIN x = {"list"}
IsDict(x) == DOMAIN x = {"dict"}

None == <<>>
Some(v) == <<v>>

Min(S) == CHOOSE m \in S : \A n \in S : m <= n

\* all sequences over S of length lo..hi
SeqsOf(S, lo, hi) == UNION {[1..n -> S] : n \in lo..hi}

-----------------------------------------------------------------------------
(* Text of str values that the program inspects character by character:    *)
(* a sequence of code points.                                              *)

s_beli == <<98, 101, 108, 105>>
s_BELI == <<66, 69, 76, 73>>
s_jual == <<106, 117, 97, 108>>
s_JUAL == <<74, 85, 65, 76>>
s_sell == <<115, 101, 108, 108>>

\* str.lower() on ASCII text
Lower(s) == [i \in 1..Len(s) |-> IF s[i] \in 65..90 THEN s[i] + 32 ELSE s[i]]

\* Python's < on str: by code point, a proper prefix first
StrLess(a, b) ==
    \E k \in 1..(Len(b)) :
        /\ \A i \in 1..(k - 1) : i <= Len(a) /\ a[i] = b[i]
        /\ \/ Len(a) = k - 1
           \/ Len(a) >= k /\ a[k] < b[k]

-----------------------------------------------------------------------------
(* The price points and the JSON documents the endpoint may embed.         *)

P_full == Dict([lastUpdate |-> Str("2024-01-05"), hargaBeli |-> Str("12"),
                hargaJual |-> Str("7")])
P_fullGeneric == Dict([lastUpdate |-> Str("2024-01-01"), hargaBeli |-> Str("1"),
                       hargaJual |-> Str("12"), harga |-> Str("7")])
P_buyGeneric == Dict([lastUpdate |-> Str("2024-01-01"), hargaBeli |-> Str("7"),
                      harga |-> Str("12")])
P_generic == Dict([tanggal |-> Str("2024-01-05"), harga |-> Str("7")])
P_genericTie == Dict([tanggal |-> Str("2024-01-05"), harga |-> Str("1")])
P_badDate == Dict([tanggal |-> Str("bad-date"), harga |-> Str("12")])
P_dateKey == Dict([date |-> Str("2024-01-01"), harga |-> Str("1")])
P_unknown == Dict([keterangan |-> Str("n/a")])
P_badPrice == Dict([lastUpdate |-> Str("2024-01-01"), hargaBeli |-> Str("n/a")])

Points == {P_full, P_fullGeneric, P_buyGeneric, P_generic, P_genericTie,
           P_badDate, P_dateKey, P_unknown, P_badPrice}

\* the points used to build whole documents
DocPoints == {P_full, P_generic, P_unknown}

DocLists == SeqsOf(DocPoints, 0, MaxPoints)

Documents ==
    {Dict([pricedlist |-> List(L)]) : L \in DocLists}
    \cup {List(<<Dict([pricedlist |-> List(L)])>>) : L \in DocLists}
    \cup {List(<<Dict([pricedlist |-> List(L)]), P_unknown>>) : L \in DocLists}
    \cup {List(L) : L \in DocLists}
    \cup DocPoints
    \cup {Dict([priceList |-> List(L)]) : L \in DocLists}
    \cup {List(<<Dict([priceList |-> List(L)])>>) : L \in DocLists}
    \cup {Num(5), Str("abc"), List(<<Num(1), Num(2)>>), List(<<Num(1), P_full>>)}

\* the order in which a mapping's keys are written
KeyOrder == <<"lastUpdate", "date", "tanggal", "hargaBeli", "hargaJual",
              "harga", "keterangan", "pricedlist", "priceList">>

RECURSIVE json_dumps(_)
RECURSIVE DumpsItems(_, _)
RECURSIVE DumpsMembers(_, _, _)

\* the JSON text of a value (compact separators)
json_dumps(x) ==
    IF IsStr(x) THEN "\"" \o x.str \o "\""
    ELSE IF IsNum(x) THEN ToString(x.num)
    ELSE IF IsList(x) THEN "[" \o DumpsItems(x.list, 1) \o "]"
    ELSE "{" \o DumpsMembers(x.dict, 1, TRUE) \o "}"

DumpsItems(xs, i) ==
    IF i > Len(xs) THEN ""
    ELSE (IF i > 1 THEN "," ELSE "") \o json_dumps(xs[i]) \o DumpsItems(xs, i + 1)

DumpsMembers(f, k, first) ==
    IF k > Len(KeyOrder) THEN ""
    ELSE IF KeyOrder[k] \in DOMAIN f
         THEN (IF first THEN "" ELSE ",")
              \o "\"" \o KeyOrder[k] \o "\":" \o json_dumps(f[KeyOrder[k]])
              \o DumpsMembers(f, k + 1, FALSE)
         ELSE DumpsMembers(f, k + 1, first)

\* the payload strings the endpoint may send
PayloadTexts == {json_dumps(d) : d \in Documents}

\* every document beside its JSON text
TextPairs == {<<json_dumps(d), d>> : d \in Documents}

\* json.loads on a valid payload: the value whose JSON text the string is
json_loads(text) == (CHOOSE pr \in TextPairs : pr[1] = text)[2]

-----------------------------------------------------------------------------
(* parse_json_fluktuasi *)

\* the slip of returning the outer list although its first element is a wrapper
parse_json_fluktuasi_WholeList(text) ==
    LET obj == json_loads(text) IN
    IF IsList(obj) /\ obj.list # <<>> /\ IsDict(obj.list[1])
    THEN obj
    ELSE IF IsDict(obj)
    THEN IF "pricedlist" \in DOMAIN obj.dict
         THEN obj.dict.pricedlist
         ELSE List(<<obj>>)
    ELSE List(<<>>)

\* a decoder that unwraps the spelling priceList as well
parse_json_fluktuasi_BothSpellings(text) ==
    LET obj == json_loads(text)
        Key(m) == IF "pricedlist" \in DOMAIN m THEN "pricedlist" ELSE "priceList"
        Wraps(m) == "pricedlist" \in DOMAIN m \/ "priceList" \in DOMAIN m
    IN
    IF IsList(obj) /\ obj.list # <<>> /\ IsDict(obj.list[1]) /\ Wraps(obj.list[1].dict)
    THEN obj.list[1].dict[Key(obj.list[1].dict)]
    ELSE IF IsList(obj) /\ obj.list # <<>> /\ IsDict(obj.list[1])
    THEN obj
    ELSE IF IsDict(obj)
    THEN IF Wraps(obj.dict) THEN obj.dict[Key(obj.dict)] ELSE List(<<obj>>)
    ELSE List(<<>>)

parse_json_fluktuasi(text) ==
    LET obj == json_loads(text) IN
    IF IsList(obj) /\ obj.list # <<>> /\ IsDict(obj.list[1])
       /\ "pricedlist" \in DOMAIN obj.list[1].dict
    THEN obj.list[1].dict.pricedlist
    ELSE IF IsList(obj) /\ obj.list # <<>> /\ IsDict(obj.list[1])
    THEN obj
    ELSE IF IsDict(obj)
    THEN IF "pricedlist" \in DOMAIN obj.dict
         THEN obj.dict.pricedlist
         ELSE List(<<obj>>)
    ELSE List(<<>>)

-----------------------------------------------------------------------------
(* pandas: DataFrame construction, coercion, column assignment, sorting.   *)

\* the slip of reading the columns off the first element alone
FrameColumns_FirstRow(xs) ==
    IF xs = <<>> THEN {} ELSE IF IsDict(xs[1]) THEN DOMAIN xs[1].dict ELSE {"0"}

\* the columns of pd.DataFrame(list): the union of the keys of all elements
FrameColumns(xs) ==
    UNION {IF IsDict(xs[i]) THEN DOMAIN xs[i].dict ELSE {"0"} : i \in 1..Len(xs)}

\* pd.DataFrame(priced): one row per element, NaN where an element lacks a key
DataFrame(pr) ==
    LET xs == pr.list
        cols == FrameColumns(xs)
    IN [columns |-> cols,
        data |-> [i \in 1..Len(xs) |->
                    [c \in cols |->
                        IF IsDict(xs[i])
                        THEN IF c \in DOMAIN xs[i].dict THEN Some(xs[i].dict[c]) ELSE None
                        ELSE IF c = "0" THEN Some(xs[i]) ELSE None]]]

\* df[c]
Series(df, c) == [i \in 1..Len(df.data) |-> df.data[i][c]]

\* the date a text parses to, as a day number; NaT for any other text
DateOf(s) ==
    CASE s = "2024-01-01" -> Some(20240101)
      [] s = "2024-01-05" -> Some(20240105)
      [] s = "2024-06-01" -> Some(20240601)
      [] OTHER -> None

\* the number a text parses to; NaN for any other text
NumberOf(s) ==
    CASE s = "1" -> Some(1)
      [] s = "7" -> Some(7)
      [] s = "12" -> Some(12)
      [] OTHER -> None

\* pd.to_datetime(series, errors="coerce") on the cells of the model (str or NaN)
to_datetime(series) ==
    [i \in 1..Len(series) |->
        IF series[i] # None /\ IsStr(series[i][1]) THEN DateOf(series[i][1].str) ELSE None]

\* pd.to_numeric(series, errors="coerce") on the cells of the model (str or NaN)
to_numeric(series) ==
    [i \in 1..Len(series) |->
        IF series[i] # None /\ IsStr(series[i][1]) THEN NumberOf(series[i][1].str) ELSE None]

\* pd.DataFrame(): no columns and an empty index
EmptyFrame == [columns |-> {}, rows |-> <<>>]

\* frame[c] = scalar: the scalar is broadcast over the index the frame has, so
\* a frame whose index is empty gets an empty column
SetScalar(f, c, v) ==
    [columns |-> f.columns \cup {c},
     rows |-> [i \in 1..Len(f.rows) |->
                 [k \in f.columns \cup {c} |-> IF k = c THEN v ELSE f.rows[i][k]]]]

\* frame[c] = series: a frame whose index is empty first takes the index of
\* the series (its other columns filled with NaN); then the values are aligned
SetSeries(f, c, s) ==
    LET base == IF Len(f.rows) = 0 /\ Len(s) > 0
                THEN [i \in 1..Len(s) |-> [k \in f.columns |-> None]]
                ELSE f.rows
    IN [columns |-> f.columns \cup {c},
        rows |-> [i \in 1..Len(base) |->
                    [k \in f.columns \cup {c} |->
                        IF k = c THEN (IF i <= Len(s) THEN s[i] ELSE None)
                        ELSE base[i][k]]]]

\* the slip of na_position="first"
SortIndexers_NullsFirst(rows) ==
    LET n == Len(rows) IN
    {p \in [1..n -> 1..n] :
        /\ \A i, j \in 1..n : i # j => p[i] # p[j]
        /\ \A i, j \in 1..n : i < j =>
            LET a == rows[p[i]].tanggal
                b == rows[p[j]].tanggal
            IN \/ a = None /\ b # None
               \/ a # None /\ b # None /\ a[1] <= b[1]
               \/ a = None /\ b = None /\ p[i] < p[j]}

\* the indexers sort_values("tanggal") may compute: dated rows ascending, then
\* the NaT rows in index order.  The default kind is quicksort, which is not
\* stable, so rows with equal dates come in either order.
SortIndexers(rows) ==
    LET n == Len(rows) IN
    {p \in [1..n -> 1..n] :
        /\ \A i, j \in 1..n : i # j => p[i] # p[j]
        /\ \A i, j \in 1..n : i < j =>
            LET a == rows[p[i]].tanggal
                b == rows[p[j]].tanggal
            IN \/ a # None /\ b = None
               \/ a # None /\ b # None /\ a[1] <= b[1]
               \/ a = None /\ b = None /\ p[i] < p[j]}

\* frame.take(indexer).reset_index(drop=True)
Take(rows, p) == [i \in 1..Len(rows) |-> rows[p[i]]]

-----------------------------------------------------------------------------
(* pick_first_existing and auto_map *)

pick_first_existing(df, candidates) ==
    LET hits == {i \in 1..Len(candidates) : candidates[i] \in df.columns}
    IN IF hits = {} THEN None ELSE Some(candidates[Min(hits)])

date_candidates == <<"lastUpdate", "last_update", "updatedAt", "updatedat",
                     "date", "tanggal", "time", "datetime", "x", "t">>
price_candidates == <<"harga", "value", "y", "price", "close">>
buy_candidates == <<"hargaBeli", "harga_beli", "buy", "buyPrice", "priceBuy">>
sell_candidates == <<"hargaJual", "harga_jual", "sell", "sellPrice", "priceSell">>

\* the dict auto_map returns as used
AutoMapUsed(df) ==
    [date |-> pick_first_existing(df, date_candidates),
     buy |-> pick_first_existing(df, buy_candidates),
     sell |-> pick_first_existing(df, sell_candidates),
     generic |-> pick_first_existing(df, price_candidates)]

\* the slip of comparing tipe without lower()
IsJual_Exact(t) == t = s_jual

\* tipe.lower() == "jual"
IsJual(t) == Lower(t) = s_jual

\* the slip of letting the generic price fill the side that was not found
AutoMapFrame_GenericFills(df, t) ==
    LET u == [date |-> pick_first_existing(df, date_candidates),
              buy |-> pick_first_existing(df, buy_candidates),
              sell |-> pick_first_existing(df, sell_candidates),
              generic |-> pick_first_existing(df, price_candidates)]
        f1 == IF u.date # None
              THEN SetSeries(EmptyFrame, "tanggal", to_datetime(Series(df, u.date[1])))
              ELSE SetScalar(EmptyFrame, "tanggal", None)
        f2 == SetScalar(f1, "harga_beli", None)
        f3 == SetScalar(f2, "harga_jual", None)
        bcol == IF u.buy # None THEN u.buy ELSE u.generic
        scol == IF u.sell # None THEN u.sell ELSE u.generic
        g == IF bcol # None
             THEN SetSeries(f3, "harga_beli", to_numeric(Series(df, bcol[1])))
             ELSE f3
    IN IF scol # None
       THEN SetSeries(g, "harga_jual", to_numeric(Series(df, scol[1])))
       ELSE g

\* out as auto_map builds it, before sort_values
AutoMapFrame(df, t) ==
    LET u == AutoMapUsed(df)
        f1 == IF u.date # None
              THEN SetSeries(EmptyFrame, "tanggal", to_datetime(Series(df, u.date[1])))
              ELSE SetScalar(EmptyFrame, "tanggal", None)
        f2 == SetScalar(f1, "harga_beli", None)
        f3 == SetScalar(f2, "harga_jual", None)
    IN IF u.buy # None \/ u.sell # None
       THEN LET g == IF u.buy # None
                     THEN SetSeries(f3, "harga_beli", to_numeric(Series(df, u.buy[1])))
                     ELSE f3
            IN IF u.sell # None
               THEN SetSeries(g, "harga_jual", to_numeric(Series(df, u.sell[1])))
               ELSE g
       ELSE IF u.generic # None
       THEN IF IsJual(t)
            THEN SetSeries(f3, "harga_jual", to_numeric(Series(df, u.generic[1])))
            ELSE SetSeries(f3, "harga_beli", to_numeric(Series(df, u.generic[1])))
       ELSE f3

-----------------------------------------------------------------------------
(* auto_map on its own: every list of points, every tipe text. *)

FnTipes == {s_beli, s_jual, s_JUAL, s_sell}

InitAutoMap ==
    /\ priced \in {Some(List(L)) : L \in SeqsOf(Points, 1, MaxPoints)}
    /\ tipe \in FnTipes
    /\ outcome = "idle"
    /\ js = "" /\ upstream = <<>> /\ records = <<>> /\ record = None /\ combos = <<>>
    /\ interval = 360
    /\ used = None /\ manual = None /\ sorter = <<>> /\ out = None

CallAutoMap ==
    /\ outcome = "idle"
    /\ LET df == DataFrame(priced[1])
           frame == AutoMapFrame(df, tipe)
       IN \E p \in SortIndexers(frame.rows) :
            /\ used' = Some(AutoMapUsed(df))
            /\ sorter' = p
            /\ out' = Some(Take(frame.rows, p))
    /\ outcome' = "mapped"
    /\ UNCHANGED <<upstream, tipe, interval, records, record, combos, js,
                   priced, manual>>

NextAutoMap == CallAutoMap

SpecAutoMap == InitAutoMap /\ [][NextAutoMap]_vars

-----------------------------------------------------------------------------
(* The decoder on its own: every payload text, decoded once. *)

InitParse ==
    /\ js \in PayloadTexts
    /\ priced = None
    /\ outcome = "idle"
    /\ upstream = <<>> /\ records = <<>> /\ record = None /\ combos = <<>>
    /\ tipe = s_jual /\ interval = 360
    /\ used = None /\ manual = None /\ sorter = <<>> /\ out = None

CallParse ==
    /\ priced = None
    /\ priced' = Some(parse_json_fluktuasi(js))
    /\ outcome' = "decoded"
    /\ UNCHANGED <<upstream, tipe, interval, records, record, combos, js,
                   used, manual, sorter, out>>

NextParse == CallParse

SpecParse == InitParse /\ [][NextParse]_vars

-----------------------------------------------------------------------------
(* The page: the widgets and the handler of the button. *)

\* the payloads of the catalogs the page is run against
PageDocuments ==
    {Dict([pricedlist |-> List(<<P_full, P_generic>>)]),
     List(<<P_generic, P_generic>>),
     P_unknown,
     Num(5),
     List(<<>>)}

\* every record carries tipe, time_interval and json_fluktuasi, the fields the
\* query asks for, so the defaults of r.get are never taken
CatalogEntries ==
    {[tipe |-> t, time_interval |-> n, json_fluktuasi |-> json_dumps(d)] :
        t \in {s_beli, s_BELI, s_jual}, n \in {90, 360}, d \in PageDocuments}

Catalogs == SeqsOf(CatalogEntries, 0, MaxCatalog)

\* the options of the selectbox "Tipe"
TipeOptions == {s_beli, s_jual}

\* the values typed into number_input "time_interval"
IntervalInputs == {90, 360}

\* the slip of keeping the last match
SelectRecord_Last(recs, t, n) ==
    LET hits == {i \in 1..Len(recs) :
                    Lower(recs[i].tipe) = t /\ recs[i].time_interval = n}
    IN IF hits = {} THEN None
       ELSE Some(recs[CHOOSE m \in hits : \A k \in hits : k <= m])

\* next(r for r in records if ... , None)
SelectRecord(recs, t, n) ==
    LET hits == {i \in 1..Len(recs) :
                    Lower(recs[i].tipe) = t /\ recs[i].time_interval = n}
    IN IF hits = {} THEN None ELSE Some(recs[Min(hits)])

\* < on the tuples (str, int)
ComboLess(a, b) == StrLess(a[1], b[1]) \/ (a[1] = b[1] /\ a[2] < b[2])

RECURSIVE SortedList(_)
\* sorted(set)
SortedList(S) ==
    IF S = {} THEN <<>>
    ELSE LET m == CHOOSE x \in S : \A y \in S \ {x} : ComboLess(x, y)
         IN <<m>> \o SortedList(S \ {m})

\* the slip of listing the pairs in catalog order, unsorted and repeated
Combos_CatalogOrder(recs) ==
    [i \in 1..Len(recs) |-> <<Lower(recs[i].tipe), recs[i].time_interval>>]

\* sorted({(str(tipe).lower(), int(time_interval)) for r in records})
Combos(recs) ==
    SortedList({<<Lower(recs[i].tipe), recs[i].time_interval>> : i \in 1..Len(recs)})

\* the slip of leaving out the empty check
IsEmptyParse_Never(pr) == FALSE

\* not priced
IsEmptyParse(pr) == pr.list = <<>>

\* out[["harga_beli", "harga_jual"]].isna().all().all()
AllPricesNA(rows) ==
    \A i \in 1..Len(rows) : rows[i].harga_beli = None /\ rows[i].harga_jual = None

\* the options of the three manual selectboxes
ManualOptions(df) == {"(none)"} \cup df.columns

\* out2 as the handler builds it, before sort_values
ManualFrame(df, dc, bc, sc) ==
    LET f1 == IF dc # "(none)"
              THEN SetSeries(EmptyFrame, "tanggal", to_datetime(Series(df, dc)))
              ELSE SetScalar(EmptyFrame, "tanggal", None)
        f2 == IF bc # "(none)"
              THEN SetSeries(f1, "harga_beli", to_numeric(Series(df, bc)))
              ELSE SetScalar(f1, "harga_beli", None)
    IN IF sc # "(none)"
       THEN SetSeries(f2, "harga_jual", to_numeric(Series(df, sc)))
       ELSE SetScalar(f2, "harga_jual", None)

Init ==
    /\ upstream \in Catalogs
    /\ tipe = s_jual
    /\ interval = 360
    /\ outcome = "idle"
    /\ records = <<>> /\ record = None /\ combos = <<>> /\ js = ""
    /\ priced = None /\ used = None /\ manual = None /\ sorter = <<>> /\ out = None

\* a script run in which the button is not pressed shows the widgets only
Rerun ==
    /\ outcome' = "idle"
    /\ records' = <<>> /\ record' = None /\ combos' = <<>> /\ js' = ""
    /\ priced' = None /\ used' = None /\ manual' = None /\ sorter' = <<>>
    /\ out' = None

SelectTipe ==
    \E t \in TipeOptions :
        /\ t # tipe
        /\ tipe' = t
        /\ Rerun
        /\ UNCHANGED <<upstream, interval>>

SetInterval ==
    \E n \in IntervalInputs :
        /\ n # interval
        /\ interval' = n
        /\ Rerun
        /\ UNCHANGED <<upstream, tipe>>

\* if st.button(...): the whole handler
ClickButton ==
    LET recs == upstream
        sel == SelectRecord(recs, tipe, interval)
    IN
    /\ records' = recs
    /\ record' = sel
    /\ IF sel = None
       THEN /\ combos' = Combos(recs)
            /\ outcome' = "not_found"
            /\ js' = "" /\ priced' = None /\ used' = None /\ manual' = None
            /\ sorter' = <<>> /\ out' = None
       ELSE LET pr == parse_json_fluktuasi(sel[1].json_fluktuasi) IN
            /\ combos' = <<>>
            /\ js' = sel[1].json_fluktuasi
            /\ priced' = Some(pr)
            /\ IF IsEmptyParse(pr)
               THEN /\ outcome' = "parse_empty"
                    /\ used' = None /\ manual' = None /\ sorter' = <<>> /\ out' = None
               ELSE LET df == DataFrame(pr)
                        frame == AutoMapFrame(df, tipe)
                    IN
                    /\ used' = Some(AutoMapUsed(df))
                    /\ outcome' = "table"
                    /\ IF AllPricesNA(frame.rows)
                       THEN \E dc, bc, sc \in ManualOptions(df) :
                              LET frame2 == ManualFrame(df, dc, bc, sc) IN
                              \E p \in SortIndexers(frame2.rows) :
                                  /\ manual' = Some(<<dc, bc, sc>>)
                                  /\ sorter' = p
                                  /\ out' = Some(Take(frame2.rows, p))
                       ELSE \E p \in SortIndexers(frame.rows) :
                              /\ manual' = None
                              /\ sorter' = p
                              /\ out' = Some(Take(frame.rows, p))
    /\ UNCHANGED <<upstream, tipe, interval>>

Next == SelectTipe \/ SetInterval \/ ClickButton

Spec == Init /\ [][Next]_vars

-----------------------------------------------------------------------------
(* Properties of the decoder (checked under SpecParse). *)

WrapIn(L) == Dict([pricedlist |-> List(L)])
WrapAlt(L) == Dict([priceList |-> List(L)])

\* C1: for the four payload shapes {"pricedlist": L}, [{"pricedlist": L}, ...],
\* [m1, m2, ...] (first element a mapping without pricedlist) and a bare
\* mapping m without pricedlist, the decoder returns L, L, the whole outer
\* list and [m] respectively.
C1_FourShapes ==
    priced # None =>
        /\ \A L \in DocLists :
            /\ js = json_dumps(WrapIn(L)) => priced[1] = List(L)
            /\ js = json_dumps(List(<<WrapIn(L)>>)) => priced[1] = List(L)
            /\ js = json_dumps(List(<<WrapIn(L), P_unknown>>)) => priced[1] = List(L)
            /\ (L # <<>> /\ js = json_dumps(List(L))) => priced[1] = List(L)
        /\ \A m \in DocPoints : js = json_dumps(m) => priced[1] = List(<<m>>)

\* a wrapper followed by a further element was decoded to the wrapped list
C1_Witness ==
    /\ js = json_dumps(List(<<WrapIn(<<P_full, P_generic>>), P_unknown>>))
    /\ priced = Some(List(<<P_full, P_generic>>))

\* C10 as claimed: a payload {"priceList": L} or [{"priceList": L}] is decoded
\* to the wrapped list L, as for the spelling pricedlist.
C10_BothSpellings ==
    priced # None =>
        \A L \in DocLists :
            (js = json_dumps(WrapAlt(L)) \/ js = json_dumps(List(<<WrapAlt(L)>>)))
                => priced[1] = List(L)

\* C10 as the code has it: only the spelling pricedlist is unwrapped; for
\* {"priceList": L} the decoder returns the one-element list holding the
\* wrapper mapping, and for [{"priceList": L}] the outer list itself, so the
\* wrapper is the single raw point.
C10_OnlyPricedlist ==
    priced # None =>
        \A L \in DocLists :
            (js = json_dumps(WrapAlt(L)) \/ js = json_dumps(List(<<WrapAlt(L)>>)))
                => priced[1] = List(<<WrapAlt(L)>>)

\* a priceList wrapper around two points came back as one raw point
C10_Witness ==
    /\ js = json_dumps(WrapAlt(<<P_full, P_generic>>))
    /\ priced = Some(List(<<WrapAlt(<<P_full, P_generic>>)>>))

-----------------------------------------------------------------------------
(* Properties of auto_map (checked under SpecAutoMap). *)

\* the keys of all points of the input, and of its first point
AllKeys == UNION {DOMAIN priced[1].list[i].dict : i \in 1..Len(priced[1].list)}
FirstKeys == DOMAIN priced[1].list[1].dict

\* the first candidate that is in a set of keys
FirstOf(candidates, keys) ==
    IF \E k \in 1..Len(candidates) : candidates[k] \in keys
    THEN Some(candidates[CHOOSE k \in 1..Len(candidates) :
                            /\ candidates[k] \in keys
                            /\ \A l \in 1..(k - 1) : candidates[l] \notin keys])
    ELSE None

\* the number held by input point i under a field, null without the field
RawNumber(i, field) ==
    LET pt == priced[1].list[i].dict
    IN IF field \in DOMAIN pt THEN NumberOf(pt[field].str) ELSE None

HasAny(candidates) == \E k \in 1..Len(candidates) : candidates[k] \in AllKeys

\* C5: when a buy or a sell candidate is among the point keys, buyPrice comes
\* from the resolved buy field alone and sellPrice from the resolved sell
\* field alone; a side that was not found stays null, and the generic price
\* field fills neither column even when it is present.
C5_GenericIgnored ==
    (outcome = "mapped" /\ (HasAny(buy_candidates) \/ HasAny(sell_candidates))) =>
        LET b == FirstOf(buy_candidates, AllKeys)
            sl == FirstOf(sell_candidates, AllKeys)
        IN /\ Len(out[1]) = Len(priced[1].list)
           /\ \A i \in 1..Len(out[1]) :
                /\ out[1][i].harga_beli =
                      (IF b = None THEN None ELSE RawNumber(sorter[i], b[1]))
                /\ out[1][i].harga_jual =
                      (IF sl = None THEN None ELSE RawNumber(sorter[i], sl[1]))

\* a point with a buy field and a generic price: the sell column stays null
C5_Witness ==
    /\ outcome = "mapped"
    /\ priced = Some(List(<<P_buyGeneric>>))
    /\ out = Some(<<[tanggal |-> Some(20240101), harga_beli |-> Some(7),
                     harga_jual |-> None]>>)

GenericOnly ==
    /\ outcome = "mapped"
    /\ ~HasAny(buy_candidates) /\ ~HasAny(sell_candidates)
    /\ HasAny(price_candidates)

\* the generic field's numbers are in column c and the other column is null
GenericIn(c, other) ==
    LET g == FirstOf(price_candidates, AllKeys) IN
    /\ Len(out[1]) = Len(priced[1].list)
    /\ \A i \in 1..Len(out[1]) :
        /\ out[1][i][c] = RawNumber(sorter[i], g[1])
        /\ out[1][i][other] = None

SortedNullsLast ==
    LET n == Len(out[1]) IN
    /\ Len(sorter) = n
    /\ \A i \in 1..n : sorter[i] \in 1..Len(priced[1].list)
    /\ \A i, j \in 1..n : i # j => sorter[i] # sorter[j]
    /\ \A i, j \in 1..n : i < j =>
        /\ out[1][i].tanggal = None => out[1][j].tanggal = None
        /\ (out[1][i].tanggal # None /\ out[1][j].tanggal # None)
              => out[1][i].tanggal[1] <= out[1][j].tanggal[1]

\* C7 as claimed: the series is sorted ascending by date, null dates last, and
\* the sort is stable: points with equal dates, and points with null dates,
\* keep the relative order of the input (rows that are equal in every column
\* may be told apart by nothing, so their order is left open here).
C7_StableSort ==
    outcome = "mapped" =>
        /\ SortedNullsLast
        /\ \A i, j \in 1..Len(out[1]) :
            (i < j /\ out[1][i].tanggal = out[1][j].tanggal)
                => (sorter[i] < sorter[j] \/ out[1][i] = out[1][j])

\* C7 as the code has it: the series is sorted ascending by date, null dates
\* last, and points with null dates keep the relative order of the input;
\* the order of points with equal dates is not fixed.
C7_SortedNullsStable ==
    outcome = "mapped" =>
        /\ SortedNullsLast
        /\ \A i, j \in 1..Len(out[1]) :
            (i < j /\ out[1][i].tanggal = None /\ out[1][j].tanggal = None)
                => sorter[i] < sorter[j]

\* two points without a date around a dated one: the dated one came first
C7_Witness ==
    /\ outcome = "mapped"
    /\ priced = Some(List(<<P_unknown, P_generic, P_badDate>>))
    /\ sorter = <<2, 1, 3>>
    /\ out[1][1].tanggal = Some(20240105)
    /\ out[1][2].tanggal = None /\ out[1][3].tanggal = None

\* C9 as claimed: the date field is the first name of the priority list that
\* is a key of the first raw point; a name found only in a later point is
\* never chosen.
C9_FirstPointKeys ==
    outcome = "mapped" => used[1].date = FirstOf(date_candidates, FirstKeys)

\* C9 as the code has it: the date field is the first name of the priority
\* list that is a key of at least one raw point (a column of the DataFrame
\* built from all points), whether or not the first point has it.
C9_AnyPointKeys ==
    outcome = "mapped" => used[1].date = FirstOf(date_candidates, AllKeys)

\* "date" is chosen although only the second point has it
C9_Witness ==
    /\ outcome = "mapped"
    /\ priced = Some(List(<<P_generic, P_dateKey>>))
    /\ used[1].date = Some("date")

-----------------------------------------------------------------------------
(* Properties of the page (checked under Spec). *)

\* categories compared without regard to case
SameCategory(a, b) == Lower(a) = Lower(b)

Matches(i) ==
    /\ SameCategory(records[i].tipe, tipe)
    /\ records[i].time_interval = interval

\* C3: selection returns the first entry in catalog order whose category
\* equals the requested one case-insensitively and whose interval equals the
\* requested one; with several matches the earliest is returned.
C3_FirstMatch ==
    outcome # "idle" =>
        /\ (\E i \in 1..Len(records) : Matches(i)) => record # None
        /\ record # None =>
            \E i \in 1..Len(records) :
                /\ Matches(i)
                /\ record[1] = records[i]
                /\ \A j \in 1..(i - 1) : ~Matches(j)

\* "BELI"/360 before "beli"/360 with another payload: the first was selected
C3_Witness ==
    /\ outcome # "idle"
    /\ tipe = s_beli /\ interval = 360
    /\ Len(records) = 2
    /\ records[1].tipe = s_BELI /\ records[2].tipe = s_beli
    /\ Matches(1) /\ Matches(2)
    /\ records[1].json_fluktuasi # records[2].json_fluktuasi
    /\ record = Some(records[1])

\* C4: when no entry matches, the run ends not-found and the alternatives
\* listed are exactly the distinct (category, interval) pairs of the catalog
\* (categories compared case-insensitively), each once, ordered by category
\* and then by interval numerically; nothing is decoded, no table is made.
C4_NotFound ==
    (outcome # "idle" /\ \A i \in 1..Len(records) : ~Matches(i)) =>
        /\ outcome = "not_found"
        /\ \A i \in 1..Len(records) : \E k \in 1..Len(combos) :
              /\ SameCategory(combos[k][1], records[i].tipe)
              /\ combos[k][2] = records[i].time_interval
        /\ \A k \in 1..Len(combos) : \E i \in 1..Len(records) :
              /\ SameCategory(combos[k][1], records[i].tipe)
              /\ combos[k][2] = records[i].time_interval
        /\ \A k, l \in 1..Len(combos) : k < l =>
              /\ ~(SameCategory(combos[k][1], combos[l][1]) /\ combos[k][2] = combos[l][2])
              /\ \/ StrLess(combos[k][1], combos[l][1])
                 \/ combos[k][1] = combos[l][1] /\ combos[k][2] < combos[l][2]
        /\ priced = None /\ out = None

\* "BELI"/360 then "beli"/90 asked for "jual": listed as beli/90, beli/360
C4_Witness ==
    /\ outcome = "not_found"
    /\ Len(records) = 2
    /\ records[1].tipe = s_BELI /\ records[1].time_interval = 360
    /\ records[2].tipe = s_beli /\ records[2].time_interval = 90
    /\ combos = <<(<<s_beli, 90>>), (<<s_beli, 360>>)>>

\* the selected record's payload is a top-level scalar or an empty list
ScalarOrEmptySelected ==
    /\ record # None
    /\ LET obj == json_loads(record[1].json_fluktuasi)
       IN IsNum(obj) \/ IsStr(obj) \/ (IsList(obj) /\ obj.list = <<>>)

\* C2 as claimed: for a top-level scalar or an empty list the decoder fails
\* and returns no sequence of raw points, not even an empty one.
C2_DecoderFails == ScalarOrEmptySelected => priced = None

\* C2 as the code has it: for a top-level scalar or an empty list the decoder
\* returns the empty list without raising; the handler then reports the
\* empty parse as an error and stops, and no table is produced.
C2_EmptyThenError ==
    ScalarOrEmptySelected =>
        /\ priced = Some(List(<<>>))
        /\ outcome = "parse_empty"
        /\ out = None

\* the payload 5 was selected and the run ended with the empty-parse error
C2_Witness ==
    /\ ScalarOrEmptySelected
    /\ record[1].json_fluktuasi = json_dumps(Num(5))
    /\ outcome = "parse_empty"

\* C8: the table handed to the sink has as many rows as there were raw
\* points, whatever columns were resolved or selected.
C8_NoRowDropped ==
    outcome = "table" => Len(out[1]) = Len(priced[1].list)

====
